---- MODULE Spec2Model ----
(***************************************************************************)
(* The sequence player of agentic-story/src/app/page.tsx (component Home). *)
(*                                                                         *)
(* The component's React state is the five useState cells; runSequence is  *)
(* an async function, so one traversal of the script is a coroutine that   *)
(* runs on the JavaScript thread from one await to the next.  `active` is  *)
(* the traversal that currently holds the thread (0: none): while it is    *)
(* not 0 only that traversal moves, so a synchronous stretch of code is    *)
(* never interleaved with another handler, timer or event, yet each write  *)
(* of the stretch is a state of the model.                                 *)
(*                                                                         *)
(* run() and reset() are the component's two handlers; the rendering layer *)
(* that decides when a button offers them is outside the player, so the    *)
(* environment may invoke either at any time the thread is free.  A setter *)
(* stores the value React renders next; the guard of runSequence reads the *)
(* status of the render that built the function (renderedStatus), which    *)
(* Render brings up to date.                                               *)
(*                                                                         *)
(* A traversal is a record: pc is the await it is suspended at ("timer",   *)
(* "speech", "resume", "delay"), "loop" at the head of an iteration, or    *)
(* "none", "finished", "failed" (ended by a rejection); i is the step,     *)
(* counted from 1.  Two fields only observe the run: got holds the awaits  *)
(* of the current step that have resolved, lit tells that this traversal   *)
(* has turned showPhoto from false to true.                                *)
(***************************************************************************)
EXTENDS Integers, Sequences, FiniteSets, TLC

\* Number of traversals (calls of runSequence that pass the guard) a behaviour may start.
MaxRuns == 2

\* Number of script steps the traversals of a behaviour may walk in all: a
\* traversal starts only while its whole script still fits.
MaxSteps == 20

\* An optional numeric field (rate?, pitch?, delayAfter?) that the step does not carry.
NoVal == -1

\* ------------------------------------------------------------------ script

Speech(text, rate, pitch, delayAfter, visual) ==
  [type |-> "speech", text |-> text, rate |-> rate, pitch |-> pitch,
   delayAfter |-> delayAfter, duration |-> NoVal, sound |-> "none", visual |-> visual]

Pause(duration, visual) ==
  [type |-> "pause", text |-> "", rate |-> NoVal, pitch |-> NoVal,
   delayAfter |-> NoVal, duration |-> duration, sound |-> "none", visual |-> visual]

Sound(sound, delayAfter, visual) ==
  [type |-> "sound", text |-> "", rate |-> NoVal, pitch |-> NoVal,
   delayAfter |-> delayAfter, duration |-> NoVal, sound |-> sound, visual |-> visual]

Text(text, duration, visual) ==
  [type |-> "text", text |-> text, rate |-> NoVal, pitch |-> NoVal,
   delayAfter |-> NoVal, duration |-> duration, sound |-> "none", visual |-> visual]

Final(text, visual) ==
  [type |-> "final", text |-> text, rate |-> NoVal, pitch |-> NoVal,
   delayAfter |-> NoVal, duration |-> NoVal, sound |-> "none", visual |-> visual]

\* STORY_SEQUENCE.  Rates and pitches are in hundredths (0.82 is 82); the
\* narration is kept as ASCII text (the ellipses, dashes, quotes and the
\* emoji of the source are written in ASCII or dropped).
STORY_SEQUENCE ==
  << Text("", 500, "hallway"),
     Speech("Raat ke do baje mere kamre ke darwaze pe kisi ne knock kiya...",
            82, 85, 700, "hallway"),
     Pause(1000, "hallway"),
     Speech("Main akela tha ghar mein.", 88, 80, 1000, "hallway"),
     Sound("knock-soft", 900, "knock"),
     Speech("Pehle laga hawa hogi... lekin phir knock fir se hua - is baar zyada zor se.",
            84, 80, 600, "knock"),
     Sound("knock-hard", 1000, "knock"),
     Speech("Main ne flashlight uthayi, aur darwaze ke paas gaya.",
            90, 82, 700, "flashlight"),
     Speech("Andar se awaaz aayi... ek ladki ki halki si fusi hui aawaz - 'Please... madad karo...'",
            100, 140, 900, "flashlight"),
     Pause(900, "empty"),
     Speech("Darwaza kholte hi ek thandi hawa ka jhonka aaya... lekin koi nahi tha.",
            86, 78, 800, "empty"),
     Sound("heartbeat", 1000, "empty"),
     Speech("Sirf floor pe ek purani polaroid photo padhi thi... meri.",
            84, 80, 800, "photo"),
     Sound("glitch", 1200, "photo"),
     Speech("Lekin us photo mein main darwaze ke bahar khada tha.",
            82, 78, 1400, "photo"),
     Pause(2000, "glitch"),
     Speech("Mujhe ab tak samajh nahi aaya... us raat knock kisne kiya tha - main to andar tha.",
            80, 75, 1500, "glitch"),
     Final("'Sometimes... the one knocking isn't outside.'", "glitch") >>

\* Further scripts of the SequenceStep type, run by the same player: steps
\* without a visual, without delayAfter, with delayAfter 0, and a final step
\* that is not the last.
ScriptSpeechFinal ==
  << Speech("line", 100, 100, 700, "none"), Final("end", "none") >>

ScriptPhoto ==
  << Sound("glitch", NoVal, "photo"),
     Speech("whisper", NoVal, 140, 0, "none"),
     Text("shown", 0, "photo"),
     Final("mid", "empty"),
     Pause(0, "none") >>

Scripts == {STORY_SEQUENCE, ScriptSpeechFinal, ScriptPhoto}

\* ------------------------------------------------------------------ state

VARIABLES
  script,           \* the script the player walks (fixed for a behaviour)
  speechAvailable,  \* "speechSynthesis" in window
  audioSupported,   \* new AudioContext() succeeds
  status, currentLine, visual, showPhoto, stepIndex,   \* the useState cells
  renderedStatus,   \* `status` as captured by the runSequence of the latest render
  mounted,          \* the component is mounted
  trav,             \* the traversals: position of each runSequence coroutine
  active,           \* the traversal running on the thread, 0 when the thread is free
  utterances,       \* the speech service's queue, head first
  cancelled,        \* owners of cancelled utterances whose error event is not delivered yet
  audioCtx,         \* audioContextRef.current: "none", or the context's state
  ctxCreated,       \* how many times new AudioContext() has succeeded
  sched,            \* what the latest playSound scheduled on the audio graph
  probe,            \* a pure function of the file applied to inputs (see PureSpec)
  lastOp            \* the handler invoked last: "run", "runIgnored", "reset", else "other"

env == <<script, speechAvailable, audioSupported, probe>>
audio == <<audioCtx, ctxCreated, sched>>
cells == <<status, currentLine, visual, showPhoto, stepIndex>>
vars == <<script, speechAvailable, audioSupported, status, currentLine, visual,
          showPhoto, stepIndex, renderedStatus, mounted, trav, active,
          utterances, cancelled, audioCtx, ctxCreated, sched, probe, lastOp>>

Runs == 1..MaxRuns

\* Nothing scheduled yet; live tells whether the component was mounted when
\* the events were scheduled.
NoSched == [kind |-> "none", clock |-> 0, now |-> 0, knocks |-> << >>, noise |-> << >>, live |-> TRUE]

\* No function applied.
NoProbe ==
  [fn |-> "none", applied |-> FALSE, text |-> << >>, rate |-> NoVal,
   pitch |-> NoVal, voices |-> << >>, words |-> 0, ms |-> << 0, 1 >>,
   tone |-> "none", outPitch |-> 0, voice |-> 0]

\* A traversal that was never started.
NoTraversal == [pc |-> "none", i |-> 0, got |-> {}, lit |-> FALSE]

Init ==
  /\ script \in Scripts
  /\ speechAvailable \in BOOLEAN
  /\ audioSupported \in BOOLEAN
  /\ status = "idle"
  /\ currentLine = ""
  /\ visual = "idle"
  /\ showPhoto = FALSE
  /\ stepIndex = 0
  /\ renderedStatus = "idle"
  /\ mounted = TRUE
  /\ trav = [k \in Runs |-> NoTraversal]
  /\ active = 0
  /\ utterances = << >>
  /\ cancelled = {}
  /\ audioCtx = "none"
  /\ ctxCreated = 0
  /\ sched = NoSched
  /\ probe = NoProbe
  /\ lastOp = "other"


\* ------------------------------------------------------------------ helpers

\* A useState setter: React drops an update of an unmounted component.
Set(old, new) == IF mounted THEN new ELSE old

\* JavaScript truthiness of an optional number: absent and 0 are both falsy.
Truthy(n) == n # NoVal /\ n # 0

\* A runSequence whose guard is missing.
RunGuardMissing == FALSE

\* The early return of runSequence: the status its closure captured is running.
RunGuard == renderedStatus = "running"

\* The first traversal slot not used yet.
FreeSlots == {k \in Runs : trav[k].pc = "none"}
NextSlot == CHOOSE k \in FreeSlots : \A j \in FreeSlots : k <= j

\* The bounds leave room for one more traversal of the script.
CanStart ==
  /\ FreeSlots # {}
  /\ (Cardinality(Runs \ FreeSlots) + 1) * Len(script) <= MaxSteps

\* window.speechSynthesis.speaking: an utterance is being spoken.
Speaking == utterances # << >> /\ Head(utterances).state = "speaking"

Owners == {utterances[n].owner : n \in 1..Len(utterances)}

\* window.speechSynthesis.cancel(): the queue is emptied, every utterance of
\* it gets an error event, delivered later.
CancelSpeech ==
  /\ utterances' = << >>
  /\ cancelled' = cancelled \cup Owners

\* A loop that never waits for delayAfter.
WaitsAfterNever(step) == FALSE

\* `if (step.delayAfter) await wait(step.delayAfter)`, for speech and sound steps.
WaitsAfter(step) == step.type \in {"speech", "sound"} /\ Truthy(step.delayAfter)

\* The await of the step's effect has resolved for traversal k, whose record
\* is t: the code goes on to the delayAfter wait, or round the loop.
AfterEffect(k, t) ==
  LET u == [t EXCEPT !.got = @ \cup {"effect"}] IN
  IF WaitsAfter(script[t.i])
    THEN /\ trav' = [trav EXCEPT ![k] = [u EXCEPT !.pc = "delay"]]
         /\ active' = 0
    ELSE /\ trav' = [trav EXCEPT ![k] = [u EXCEPT !.pc = "loop", !.i = t.i + 1]]
         /\ active' = k

\* ------------------------------------------------------------------ handlers

\* runSequence up to the loop: the guard, then the five writes.
Run ==
  /\ active = 0
  /\ mounted
  /\ IF RunGuard
       THEN /\ lastOp' = "runIgnored"
            /\ UNCHANGED <<env, cells, renderedStatus, mounted, trav, active,
                           utterances, cancelled, audio>>
       ELSE /\ CanStart
            /\ status' = "running"
            /\ currentLine' = ""
            /\ visual' = "hallway"
            /\ showPhoto' = FALSE
            /\ stepIndex' = 0
            /\ trav' = [trav EXCEPT ![NextSlot] =
                          [pc |-> "loop", i |-> 1, got |-> {}, lit |-> FALSE]]
            /\ active' = NextSlot
            /\ lastOp' = "run"
            /\ UNCHANGED <<env, renderedStatus, mounted, utterances, cancelled, audio>>

\* A reset that forgets the photo.
ResetWritesKeepPhoto ==
  /\ status' = "idle"
  /\ currentLine' = ""
  /\ visual' = "idle"
  /\ showPhoto' = showPhoto
  /\ stepIndex' = 0

\* The five writes of resetExperience.
ResetWrites ==
  /\ status' = "idle"
  /\ currentLine' = ""
  /\ visual' = "idle"
  /\ showPhoto' = FALSE
  /\ stepIndex' = 0

\* resetExperience.
Reset ==
  /\ active = 0
  /\ mounted
  /\ ResetWrites
  /\ IF speechAvailable THEN CancelSpeech ELSE UNCHANGED <<utterances, cancelled>>
  /\ lastOp' = "reset"
  /\ UNCHANGED <<env, renderedStatus, mounted, trav, active, audio>>

\* React renders the component: runSequence is rebuilt over the current status.
Render ==
  /\ active = 0
  /\ mounted
  /\ renderedStatus # status
  /\ renderedStatus' = status
  /\ lastOp' = "other"
  /\ UNCHANGED <<env, cells, mounted, trav, active, utterances, cancelled, audio>>

\* The component unmounts: the two cleanup effects.
Teardown ==
  /\ active = 0
  /\ mounted
  /\ mounted' = FALSE
  /\ IF speechAvailable THEN CancelSpeech ELSE UNCHANGED <<utterances, cancelled>>
  /\ audioCtx' = "none"
  /\ lastOp' = "other"
  /\ UNCHANGED <<env, cells, renderedStatus, trav, active, ctxCreated, sched>>


\* ------------------------------------------------------------------ the loop

\* Traversal k holds the thread at the head of the loop, with a step to run.
AtStep(k, type) ==
  /\ active = k
  /\ trav[k].pc = "loop"
  /\ trav[k].i <= Len(script)
  /\ script[trav[k].i].type = type

\* The head of an iteration: setStepIndex(i + 1), and the step's visual.
\* (The model counts steps from 1, so its i is the source's i + 1.)
BeginWrites(k) ==
  LET step == script[trav[k].i] IN
  /\ stepIndex' = Set(stepIndex, trav[k].i)
  /\ visual' = IF step.visual # "none" THEN Set(visual, step.visual) ELSE visual
  /\ showPhoto' = IF step.visual = "photo" THEN Set(showPhoto, TRUE) ELSE showPhoto

\* The traversal's record as the iteration begins: nothing of this step is
\* awaited yet; lit remembers that this traversal turned showPhoto on.
Begun(k) ==
  [trav[k] EXCEPT !.got = {},
                  !.lit = @ \/ (mounted /\ ~showPhoto
                                /\ script[trav[k].i].visual = "photo")]

\* ------------------------------------------------------------------ pure functions
\* A text is a sequence of one-character strings; a rate or a pitch is in
\* hundredths; a quotient is the exact fraction << numerator, denominator >>.

Min(a, b) == IF a <= b THEN a ELSE b

Max(a, b) == IF a >= b THEN a ELSE b

\* A parameter default or `??`: the value, unless it is absent.
Default(v, d) == IF v = NoVal THEN d ELSE v

\* The characters \s matches and trim() strips, among those of the texts.
Whitespace == {" ", "\t"}

RECURSIVE TrimStart(_)
TrimStart(s) ==
  IF s # << >> /\ Head(s) \in Whitespace THEN TrimStart(Tail(s)) ELSE s

RECURSIVE TrimEnd(_)
TrimEnd(s) ==
  IF s # << >> /\ s[Len(s)] \in Whitespace
    THEN TrimEnd(SubSeq(s, 1, Len(s) - 1))
    ELSE s

\* String.prototype.trim.
Trim(s) == TrimEnd(TrimStart(s))

\* split(/\s+/), with the piece read so far: the pieces between the maximal
\* runs of whitespace, empty pieces at the ends included ("" gives [""]).
RECURSIVE SplitFrom(_, _)
SplitFrom(s, piece) ==
  IF s = << >> THEN << piece >>
  ELSE IF Head(s) \in Whitespace
    THEN << piece >> \o SplitFrom(TrimStart(s), << >>)
    ELSE SplitFrom(Tail(s), Append(piece, Head(s)))

Split(s) == SplitFrom(s, << >>)

\* The local `words` of approximateSpeechDuration.
WordCount(text) ==
  LET sanitized == Trim(text) IN
  IF Len(sanitized) > 0 THEN Len(Split(sanitized)) ELSE 0

\* n / rate.
Quot(n, rate) == << n * 100, rate >>

\* Math.max of two quotients with positive denominators.
QuotMax(a, b) == IF a[1] * b[2] >= b[1] * a[2] THEN a ELSE b

\* The duration without its lower limit of 2400 / rate.
approximateSpeechDurationNoFloor(text, rate) ==
  Quot(Max(3, WordCount(text)) * 380, rate)

\* approximateSpeechDuration.
approximateSpeechDuration(text, rate) ==
  LET base == Max(3, WordCount(text)) * 380 IN
  QuotMax(Quot(2400, rate), Quot(base, rate))

\* The tone runSequence chooses for a speech step.
Tone(step) ==
  IF Truthy(step.pitch) /\ step.pitch > 100 THEN "whisper" ELSE "narrator"

\* The pitch of a whisper with no upper limit.
UtterancePitchUncapped(pitch, tone) ==
  IF tone = "whisper" THEN pitch + 40 ELSE pitch

\* utterance.pitch.
UtterancePitch(pitch, tone) ==
  IF tone = "whisper" THEN Min(pitch + 40, 200) ELSE pitch

\* utterance.volume.
UtteranceVolume(tone) == IF tone = "whisper" THEN 65 ELSE 90

\* The utterance speakLine builds for a speech step, as runSequence calls it.
Utterance(step) ==
  LET tone == Tone(step) IN
  [tone |-> tone,
   rate |-> Default(step.rate, 100),
   pitch |-> UtterancePitch(Default(step.pitch, 100), tone),
   volume |-> UtteranceVolume(tone)]

\* window.speechSynthesis.speak(utterance), after cancel() when one is being spoken.
Submit(k) ==
  LET made == Utterance(script[trav[k].i])
      u == [owner |-> k, state |-> "pending", tone |-> made.tone,
            rate |-> made.rate, pitch |-> made.pitch, volume |-> made.volume] IN
  IF Speaking
    THEN /\ utterances' = << u >>
         /\ cancelled' = cancelled \cup Owners
    ELSE /\ utterances' = Append(utterances, u)
         /\ cancelled' = cancelled

\* A speech step up to its await: the line, then speakLine, which waits for
\* the fallback duration without a speech service and else submits the utterance.
StepSpeech(k) ==
  /\ AtStep(k, "speech")
  /\ BeginWrites(k)
  /\ currentLine' = Set(currentLine, script[trav[k].i].text)
  /\ IF speechAvailable
       THEN /\ Submit(k)
            /\ trav' = [trav EXCEPT ![k] = [Begun(k) EXCEPT !.pc = "speech"]]
       ELSE /\ UNCHANGED <<utterances, cancelled>>
            /\ trav' = [trav EXCEPT ![k] = [Begun(k) EXCEPT !.pc = "timer"]]
  /\ active' = 0
  /\ lastOp' = "other"
  /\ UNCHANGED <<env, status, renderedStatus, mounted, audio>>

\* A pause step up to its await.
StepPause(k) ==
  /\ AtStep(k, "pause")
  /\ BeginWrites(k)
  /\ trav' = [trav EXCEPT ![k] = [Begun(k) EXCEPT !.pc = "timer"]]
  /\ active' = 0
  /\ lastOp' = "other"
  /\ UNCHANGED <<env, status, currentLine, renderedStatus, mounted, utterances,
                 cancelled, audio>>

\* A text step up to its await.
StepText(k) ==
  /\ AtStep(k, "text")
  /\ BeginWrites(k)
  /\ currentLine' = Set(currentLine, script[trav[k].i].text)
  /\ trav' = [trav EXCEPT ![k] = [Begun(k) EXCEPT !.pc = "timer"]]
  /\ active' = 0
  /\ lastOp' = "other"
  /\ UNCHANGED <<env, status, renderedStatus, mounted, utterances, cancelled, audio>>

\* A final step that holds its line for a timer, as a text step does.
StepFinalWaits(k) ==
  /\ AtStep(k, "final")
  /\ BeginWrites(k)
  /\ currentLine' = Set(currentLine, script[trav[k].i].text)
  /\ trav' = [trav EXCEPT ![k] = [Begun(k) EXCEPT !.pc = "timer"]]
  /\ active' = 0
  /\ lastOp' = "other"
  /\ UNCHANGED <<env, status, renderedStatus, mounted, utterances, cancelled, audio>>

\* A final step: the line, no await.
StepFinal(k) ==
  /\ AtStep(k, "final")
  /\ BeginWrites(k)
  /\ currentLine' = Set(currentLine, script[trav[k].i].text)
  /\ trav' = [trav EXCEPT ![k] = [Begun(k) EXCEPT !.i = @ + 1]]
  /\ lastOp' = "other"
  /\ UNCHANGED <<env, status, renderedStatus, mounted, active, utterances,
                 cancelled, audio>>

\* ------------------------------------------------------------------ sound synthesis
\* Times are in milliseconds (0.05 s is 50), intensities in hundredths.

\* The lead of playSound: now = ctx.currentTime + 0.05.
LeadTime == 50

\* Readings of ctx.currentTime at the call of playSound.
ClockTimes == {0, 1000}

\* createKnock: one oscillator, started at time + offset, stopped 0.32 s later.
createKnock(time, intensity, offset) ==
  [start |-> time + offset, stop |-> time + offset + 320, intensity |-> intensity]

\* A heartbeat whose second beat comes at the offset of the hard knock.
createHeartbeatLate(time) ==
  << createKnock(time, 100, 0), createKnock(time, 70, 320) >>

\* createHeartbeat.
createHeartbeat(time) ==
  << createKnock(time, 100, 0), createKnock(time, 70, 250) >>

\* createGlitch: one noise burst of 0.6 s.
createGlitch(time) == [start |-> time, stop |-> time + 600]

\* The switch of playSound, on a context whose clock reads currentTime.
PlaySound(kind, currentTime) ==
  LET now == currentTime + LeadTime IN
  [kind |-> kind,
   clock |-> currentTime,
   now |-> now,
   knocks |-> CASE kind = "knock-soft" ->
                     << createKnock(now, 45, 0), createKnock(now + 280, 35, 0) >>
                [] kind = "knock-hard" ->
                     << createKnock(now, 90, 0), createKnock(now + 320, 85, 0) >>
                [] kind = "heartbeat" -> createHeartbeat(now)
                [] OTHER -> << >>,
   noise |-> IF kind = "glitch" THEN << createGlitch(now) >> ELSE << >>,
   live |-> mounted]

\* A sound step: playSound awaits ensureAudioContext, which creates the
\* context when there is none (the constructor throws where audio is not
\* supported, and the rejection ends runSequence), awaits resume() when the
\* context is suspended, and else returns at once: the events are scheduled
\* and the step goes on without leaving the thread to another task.
StepSoundThrows(k) ==
  /\ AtStep(k, "sound")
  /\ audioCtx = "none"
  /\ ~audioSupported
  /\ BeginWrites(k)
  /\ trav' = [trav EXCEPT ![k] = [Begun(k) EXCEPT !.pc = "failed"]]
  /\ active' = 0
  /\ lastOp' = "other"
  /\ UNCHANGED <<env, status, currentLine, renderedStatus, mounted, utterances,
                 cancelled, audio>>

StepSound(k) ==
  /\ AtStep(k, "sound")
  /\ audioCtx = "none" => audioSupported
  /\ BeginWrites(k)
  /\ ctxCreated' = IF audioCtx = "none" THEN ctxCreated + 1 ELSE ctxCreated
  /\ \E created \in {"running", "suspended"}, clock \in ClockTimes :
       LET ctx == IF audioCtx = "none" THEN created ELSE audioCtx IN
       /\ audioCtx' = ctx
       /\ IF ctx = "suspended"
            THEN /\ trav' = [trav EXCEPT ![k] = [Begun(k) EXCEPT !.pc = "resume"]]
                 /\ active' = 0
                 /\ sched' = sched
            ELSE /\ AfterEffect(k, Begun(k))
                 /\ sched' = PlaySound(script[trav[k].i].sound, clock)
  /\ lastOp' = "other"
  /\ UNCHANGED <<env, status, currentLine, renderedStatus, mounted, utterances, cancelled>>

\* The loop is over: setStatus("done").
Finish(k) ==
  /\ active = k
  /\ trav[k].pc = "loop"
  /\ trav[k].i > Len(script)
  /\ status' = Set(status, "done")
  /\ trav' = [trav EXCEPT ![k].pc = "finished"]
  /\ active' = 0
  /\ lastOp' = "other"
  /\ UNCHANGED <<env, currentLine, visual, showPhoto, stepIndex, renderedStatus,
                 mounted, utterances, cancelled, audio>>

\* ------------------------------------------------------------------ awaits resolving

\* The timer of wait(duration), or of the speech fallback, fires.
TimerFire(k) ==
  /\ active = 0
  /\ trav[k].pc = "timer"
  /\ AfterEffect(k, trav[k])
  /\ lastOp' = "other"
  /\ UNCHANGED <<env, cells, renderedStatus, mounted, utterances, cancelled, audio>>

\* The timer of wait(step.delayAfter) fires.
DelayFire(k) ==
  /\ active = 0
  /\ trav[k].pc = "delay"
  /\ trav' = [trav EXCEPT ![k] = [@ EXCEPT !.pc = "loop", !.i = @ + 1,
                                           !.got = @ \cup {"delay"}]]
  /\ active' = k
  /\ lastOp' = "other"
  /\ UNCHANGED <<env, cells, renderedStatus, mounted, utterances, cancelled, audio>>

\* resume() resolves: ensureAudioContext returns audioContextRef.current,
\* playSound schedules the events (or returns when the ref is null by now).
ResumeOk(k) ==
  /\ active = 0
  /\ trav[k].pc = "resume"
  /\ audioCtx' = IF audioCtx = "suspended" THEN "running" ELSE audioCtx
  /\ IF audioCtx = "none"
       THEN sched' = sched
       ELSE \E clock \in ClockTimes : sched' = PlaySound(script[trav[k].i].sound, clock)
  /\ AfterEffect(k, trav[k])
  /\ lastOp' = "other"
  /\ UNCHANGED <<env, cells, renderedStatus, mounted, utterances, cancelled, ctxCreated>>

\* resume() rejects: the rejection passes through playSound and ends runSequence.
ResumeFail(k) ==
  /\ active = 0
  /\ trav[k].pc = "resume"
  /\ trav' = [trav EXCEPT ![k].pc = "failed"]
  /\ lastOp' = "other"
  /\ UNCHANGED <<env, cells, renderedStatus, mounted, active, utterances,
                 cancelled, audio>>

\* ------------------------------------------------------------------ speech service

\* The service starts to speak the utterance at the head of its queue.
SpeechStart ==
  /\ active = 0
  /\ utterances # << >>
  /\ Head(utterances).state = "pending"
  /\ utterances' = [utterances EXCEPT ![1].state = "speaking"]
  /\ lastOp' = "other"
  /\ UNCHANGED <<env, cells, renderedStatus, mounted, trav, active, cancelled, audio>>

\* utterance.onend: the utterance being spoken ends, its promise resolves.
SpeechEnd ==
  /\ active = 0
  /\ Speaking
  /\ utterances' = Tail(utterances)
  /\ AfterEffect(Head(utterances).owner, trav[Head(utterances).owner])
  /\ lastOp' = "other"
  /\ UNCHANGED <<env, cells, renderedStatus, mounted, cancelled, audio>>

\* utterance.onerror: the utterance at the head fails, its promise resolves.
SpeechError ==
  /\ active = 0
  /\ utterances # << >>
  /\ utterances' = Tail(utterances)
  /\ AfterEffect(Head(utterances).owner, trav[Head(utterances).owner])
  /\ lastOp' = "other"
  /\ UNCHANGED <<env, cells, renderedStatus, mounted, cancelled, audio>>

\* utterance.onerror of a cancelled utterance.
CancelError(k) ==
  /\ active = 0
  /\ k \in cancelled
  /\ cancelled' = cancelled \ {k}
  /\ AfterEffect(k, trav[k])
  /\ lastOp' = "other"
  /\ UNCHANGED <<env, cells, renderedStatus, mounted, utterances, audio>>

\* ------------------------------------------------------------------ specification

Next ==
  \/ Run
  \/ Reset
  \/ Render
  \/ Teardown
  \/ SpeechStart
  \/ SpeechEnd
  \/ SpeechError
  \/ \E k \in Runs :
       \/ StepSpeech(k)
       \/ StepPause(k)
       \/ StepText(k)
       \/ StepFinal(k)
       \/ StepSoundThrows(k)
       \/ StepSound(k)
       \/ Finish(k)
       \/ TimerFire(k)
       \/ DelayFire(k)
       \/ ResumeOk(k)
       \/ ResumeFail(k)
       \/ CancelError(k)

Spec == Init /\ [][Next]_vars

TypeOK ==
  /\ status \in {"idle", "running", "done"}
  /\ stepIndex \in 0..Len(script)
  /\ active \in 0..MaxRuns
  /\ \A k \in Runs : trav[k].pc \in {"none", "loop", "timer", "speech", "resume",
                                     "delay", "finished", "failed"}
  /\ \A k \in Runs : trav[k].pc = "speech" <=> (k \in Owners \/ k \in cancelled)


\* Timers fire, the speech service starts and settles every utterance it
\* holds, resume() settles, and a traversal that holds the thread runs on.
\* Nothing obliges run(), reset(), a render or the unmount to happen.
Fairness ==
  /\ WF_vars(SpeechStart)
  /\ WF_vars(SpeechEnd \/ SpeechError)
  /\ \A k \in Runs :
       /\ WF_vars(StepSpeech(k) \/ StepPause(k) \/ StepText(k) \/ StepFinal(k)
                  \/ StepSoundThrows(k) \/ StepSound(k) \/ Finish(k))
       /\ WF_vars(TimerFire(k))
       /\ WF_vars(DelayFire(k))
       /\ WF_vars(ResumeOk(k) \/ ResumeFail(k))
       /\ WF_vars(CancelError(k))

FairSpec == Spec /\ Fairness

\* ------------------------------------------------------------------ voice selection
\* A voice is its name and its lang, each a sequence of characters; a voice
\* list is voicesRef.current; a choice is an index of the list, 0 for null.

MaxVoices == 3

\* toLowerCase, on the letters of the names and langs below.
LowerChar(c) ==
  CASE c = "A" -> "a" [] c = "B" -> "b" [] c = "D" -> "d" [] c = "E" -> "e"
    [] c = "F" -> "f" [] c = "G" -> "g" [] c = "H" -> "h" [] c = "I" -> "i"
    [] c = "K" -> "k" [] c = "L" -> "l" [] c = "M" -> "m" [] c = "N" -> "n"
    [] c = "R" -> "r" [] c = "S" -> "s" [] c = "U" -> "u"
    [] OTHER -> c

toLowerCase(s) == [n \in 1..Len(s) |-> LowerChar(s[n])]

\* String.prototype.startsWith.
startsWith(s, prefix) ==
  Len(s) >= Len(prefix) /\ SubSeq(s, 1, Len(prefix)) = prefix

\* String.prototype.includes.
includes(s, part) ==
  \E n \in 1..(Len(s) - Len(part) + 1) : SubSeq(s, n, n + Len(part) - 1) = part

\* Array.prototype.find over the voices that satisfy a test: the first, or 0.
First(hits) == IF hits = {} THEN 0 ELSE CHOOSE n \in hits : \A m \in hits : n <= m

\* a ?? b.
Coalesce(a, b) == IF a # 0 THEN a ELSE b

\* pickNarratorVoice.
pickNarratorVoice(voices) ==
  LET All == 1..Len(voices)
      lang(n) == toLowerCase(voices[n].lang)
      name(n) == toLowerCase(voices[n].name)
      hindiVoice ==
        Coalesce(First({n \in All : startsWith(lang(n), << "h", "i" >>)}),
                 First({n \in All : includes(lang(n), << "e", "n", "-", "i", "n" >>)}))
      deepVoice ==
        Coalesce(First({n \in All : \/ includes(name(n), << "m", "a", "l", "e" >>)
                                    \/ includes(name(n), << "d", "e", "e", "p" >>)}),
                 IF Len(voices) > 0 THEN 1 ELSE 0)
  IN IF Len(voices) = 0 THEN 0 ELSE Coalesce(hindiVoice, deepVoice)

Voice(name, lang) == [name |-> name, lang |-> lang]

\* Voices a browser may list.
Voices ==
  { Voice(<< "L", "e", "k", "h", "a" >>, << "h", "i", "-", "I", "N" >>),
    Voice(<< "R", "i", "s", "h", "i" >>, << "e", "n", "-", "I", "N" >>),
    Voice(<< "U", "K", " ", "M", "a", "l", "e" >>, << "e", "n", "-", "G", "B" >>),
    Voice(<< "D", "e", "e", "p" >>, << "e", "n", "-", "U", "S" >>),
    Voice(<< "U", "S", " ", "F", "e", "m", "a", "l", "e" >>, << "e", "n", "-", "U", "S" >>),
    Voice(<< "A", "n", "n", "a" >>, << "d", "e", "-", "D", "E" >>) }

RECURSIVE Lists(_, _)
Lists(S, n) ==
  IF n = 0 THEN { << >> }
  ELSE LET shorter == Lists(S, n - 1) IN
       shorter \cup {Append(l, x) : l \in shorter, x \in S}

\* ------------------------------------------------------------------ calls of the pure functions
\* probe holds one call: the function, its arguments, and once it is applied
\* its results.

MaxLen == 5

MaxWords == 8

HelloWorld == << "h", "e", "l", "l", "o", " ", "w", "o", "r", "l", "d" >>

\* n words, one space between them.
RECURSIVE Sentence(_)
Sentence(n) ==
  IF n = 0 THEN << >>
  ELSE IF n = 1 THEN << "a", "b" >>
  ELSE Sentence(n - 1) \o << " ", "a", "b" >>

Texts ==
  Lists({"a", " ", "\t"}, MaxLen) \cup {HelloWorld} \cup {Sentence(n) : n \in 1..MaxWords}

Rates == {NoVal, 50, 80, 100}

Pitches == {NoVal, 0, 75, 100, 101, 140, 160, 180, 200}

Call(fn, text, rate, pitch, voices) ==
  [NoProbe EXCEPT !.fn = fn, !.text = text, !.rate = rate, !.pitch = pitch,
                  !.voices = voices]

Calls ==
  {Call("approximateSpeechDuration", t, r, NoVal, << >>) : t \in Texts, r \in Rates}
    \cup {Call("speakLine", << >>, r, p, << >>) : r \in Rates, p \in Pitches}
    \cup {Call("pickNarratorVoice", << >>, NoVal, NoVal, l) : l \in Lists(Voices, MaxVoices)}

component ==
  <<script, speechAvailable, audioSupported, cells, renderedStatus, mounted,
    trav, active, utterances, cancelled, audio, lastOp>>

PureInit ==
  /\ script = ScriptSpeechFinal
  /\ speechAvailable = FALSE
  /\ audioSupported = FALSE
  /\ status = "idle"
  /\ currentLine = ""
  /\ visual = "idle"
  /\ showPhoto = FALSE
  /\ stepIndex = 0
  /\ renderedStatus = "idle"
  /\ mounted = TRUE
  /\ trav = [k \in Runs |-> NoTraversal]
  /\ active = 0
  /\ utterances = << >>
  /\ cancelled = {}
  /\ audioCtx = "none"
  /\ ctxCreated = 0
  /\ sched = NoSched
  /\ lastOp = "other"
  /\ probe \in Calls

\* The fallback of speakLine: approximateSpeechDuration(text, rate), rate = 1
\* when absent.
CallDuration ==
  /\ ~probe.applied
  /\ probe.fn = "approximateSpeechDuration"
  /\ probe' = [probe EXCEPT
                 !.applied = TRUE,
                 !.words = WordCount(probe.text),
                 !.ms = approximateSpeechDuration(probe.text, Default(probe.rate, 100))]
  /\ UNCHANGED component

\* A speech step of runSequence with the rate and pitch of the call, up to
\* the utterance speakLine builds.
CallSpeak ==
  /\ ~probe.applied
  /\ probe.fn = "speakLine"
  /\ LET made == Utterance(Speech("line", probe.rate, probe.pitch, NoVal, "none")) IN
     probe' = [probe EXCEPT !.applied = TRUE, !.tone = made.tone,
                            !.outPitch = made.pitch]
  /\ UNCHANGED component

CallVoice ==
  /\ ~probe.applied
  /\ probe.fn = "pickNarratorVoice"
  /\ probe' = [probe EXCEPT !.applied = TRUE,
                            !.voice = pickNarratorVoice(probe.voices)]
  /\ UNCHANGED component

PureNext == CallDuration \/ CallSpeak \/ CallVoice

PureSpec == PureInit /\ [][PureNext]_vars

\* ------------------------------------------------------------------ derived values

\* Math.round of the non-negative quotient 100 * n / d: halves round up.
RoundPercent(n, d) == (200 * n + d) \div (2 * d)

\* progressValue.
progressValue == Min(100, RoundPercent(stepIndex, Len(script)))

\* A traversal is active: started, and neither finished nor ended by a rejection.
Suspended(k) == trav[k].pc \in {"timer", "speech", "resume", "delay"}
ActiveTraversal(k) == trav[k].pc = "loop" \/ Suspended(k)

\* ------------------------------------------------------------------ claims

\* C1: run() invoked while the status it reads is running changes none of
\* status, currentLine, visual, showPhoto, stepIndex and starts no traversal.
C1_RunWhileRunningIsNoOp ==
  [][(renderedStatus = "running" /\ lastOp' \in {"run", "runIgnored"})
       => UNCHANGED <<cells, trav, active>>]_vars

\* C1 witness: run() was ignored while a traversal is suspended mid-script.
C1_Witness ==
  /\ lastOp = "runIgnored"
  /\ status = "running"
  /\ \E k \in Runs : Suspended(k)

\* C2: at most one traversal of the script is active, in every reachable state.
C2_AtMostOneTraversal ==
  Cardinality({k \in Runs : ActiveTraversal(k)}) <= 1

\* C3: once run() has started a traversal, status eventually becomes done
\* (as long as the component stays mounted).
C3_RunReachesDone ==
  (lastOp = "run") ~> (status = "done" \/ ~mounted)

\* Every traversal that is not ended by a rejection of playSound does finish:
\* no speech outcome and no timer holds a traversal for ever.
TraversalEnds ==
  \A k \in Runs : (trav[k].pc # "none") ~> (trav[k].pc \in {"finished", "failed"})

\* C4: playSound never raises into the traversal that called it: no traversal
\* is ended by a rejection.
C4_PlayNeverRaises ==
  \A k \in Runs : trav[k].pc # "failed"

\* C5: whatever the state reset() is invoked in, it leaves status idle,
\* stepIndex 0, currentLine empty, visual idle and showPhoto false.
C5_ResetState ==
  lastOp = "reset" =>
    /\ status = "idle"
    /\ stepIndex = 0
    /\ currentLine = ""
    /\ visual = "idle"
    /\ showPhoto = FALSE

\* C5 witness: reset() was invoked while a traversal was suspended past its first step.
C5_Witness ==
  /\ lastOp = "reset"
  /\ \E k \in Runs : Suspended(k) /\ trav[k].i > 1

\* C6: every change of status is idle to running by run(), running to done
\* by a traversal finishing, or a change to idle by reset().
C6_StatusTransitions ==
  [][status' # status =>
       \/ status = "idle" /\ status' = "running" /\ lastOp' = "run"
       \/ /\ status = "running" /\ status' = "done"
          /\ \E k \in Runs : trav[k].pc = "loop" /\ trav'[k].pc = "finished"
       \/ status' = "idle" /\ lastOp' = "reset"]_vars

\* C7: every change of stepIndex raises it by exactly 1, or returns it to 0
\* through reset() or the start of a run; and it equals the script length
\* when status becomes done.
C7_StepIndexCounts ==
  [][/\ stepIndex' # stepIndex =>
          \/ stepIndex' = stepIndex + 1
          \/ stepIndex' = 0 /\ lastOp' \in {"run", "reset"}
     /\ (status' = "done" /\ status # "done") => stepIndex' = Len(script)]_vars

\* C8: progress never decreases while status is running (the start of a run
\* and reset() apart), and it is 100 whenever status is done.
C8_ProgressMonotone ==
  [][/\ (status = "running" /\ lastOp' \notin {"run", "reset"})
          => progressValue' >= progressValue
     /\ status' = "done" => progressValue' = 100]_vars

\* C9: showPhoto goes from false to true only as a step whose visual is photo
\* begins, at most once in a traversal, and from true to false only through
\* reset() or the start of a run.
C9_ShowPhotoOnce ==
  [][/\ (~showPhoto /\ showPhoto') =>
          \E k \in Runs : /\ active = k
                          /\ trav[k].pc = "loop"
                          /\ trav[k].i <= Len(script)
                          /\ script[trav[k].i].visual = "photo"
                          /\ ~trav[k].lit
     /\ (showPhoto /\ ~showPhoto') => lastOp' \in {"run", "reset"}]_vars

\* What step must have awaited before the next one begins.
Needed(step) ==
  (IF step.type = "final" THEN {} ELSE {"effect"})
    \cup (IF step.type \in {"speech", "sound"} /\ step.delayAfter > 0
            THEN {"delay"} ELSE {})

\* C10: a traversal takes the steps in script order, one at a time: it moves
\* on from step i only to step i + 1, and only when the await of step i's
\* effect and, where step i has a delayAfter, the delayAfter wait have
\* resolved; and it writes the state only at the head of a step.
C10_StepsInOrder ==
  [][\A k \in Runs :
       /\ trav'[k].i # trav[k].i =>
            \/ trav[k].pc = "none" /\ trav'[k].i = 1
            \/ /\ trav'[k].i = trav[k].i + 1
               /\ Needed(script[trav[k].i]) \subseteq trav'[k].got
       /\ (active = k /\ cells' # cells) => trav[k].pc = "loop"]_vars

\* C10 witness: a traversal stands at the head of a step after a step whose
\* effect and delayAfter wait both resolved, while another traversal is suspended.
C10_Witness ==
  \E k, j \in Runs :
    /\ k # j
    /\ trav[k].pc = "loop"
    /\ trav[k].i > 1
    /\ trav[k].got = {"effect", "delay"}
    /\ Suspended(j)


\* C11: with the script [Speech(delayAfter 700), Final], a traversal sets
\* Final's line only after its speech await and its delayAfter wait have both
\* resolved, it keeps the thread after setting the line, and its next step
\* sets status done: no timer or other await lies in between.
C11_FinalAfterSpeechAndDelay ==
  [][script = ScriptSpeechFinal =>
       \A k \in Runs :
         /\ (active = k /\ currentLine' # currentLine /\ currentLine' = "end")
              => (trav[k].i = 2 /\ trav[k].got = {"effect", "delay"})
         /\ (active = k /\ trav[k].pc = "loop" /\ trav[k].i = 2)
              => (active' = k /\ trav'[k].pc = "loop" /\ trav'[k].i = 3)
         /\ (mounted /\ active = k /\ trav[k].pc = "loop" /\ trav[k].i = 3)
              => status' = "done"]_vars

\* C11 witness: the service spoke the line, and the run ended on Final's line.
C11_Witness ==
  /\ script = ScriptSpeechFinal
  /\ speechAvailable
  /\ currentLine = "end"
  /\ status = "done"

\* C12: the speech service never holds more than one utterance, pending or
\* being spoken.
C12_OneUtterance ==
  Len(utterances) <= 1

\* C13: while the component is mounted and status is running, a traversal
\* is active.
C13_RunningHasTraversal ==
  (mounted /\ status = "running") => \E k \in Runs : ActiveTraversal(k)

\* The state that resetExperience writes.
ResetState == <<"idle", "", "idle", FALSE, 0>>

\* C19: the state written by reset() is stable: as long as the five cells
\* hold it, only run() changes them.
C19_ResetStable ==
  [][(cells = ResetState /\ cells' # cells) => lastOp' = "run"]_vars

\* C14: over any sequence of play() calls and teardown at most one audio
\* context is ever created, and once the component is torn down no audio
\* context is open (none is created by a traversal that was still suspended).
C14_AudioSingleton ==
  /\ ctxCreated <= 1
  /\ ~mounted => audioCtx = "none"

\* The knock events of the last scheduling, each as its offset from the
\* scheduling time and its intensity.
Knocks ==
  [n \in 1..Len(sched.knocks) |->
     << sched.knocks[n].start - sched.now, sched.knocks[n].intensity >>]

\* C15: play(kind) schedules, relative to the context clock plus 0.05 s, two
\* knocks for knock-soft (offsets 0 and 0.28 s, intensities 0.45 and 0.35),
\* two for knock-hard (0 and 0.32 s, 0.9 and 0.85), two for heartbeat (0 and
\* 0.25 s, 1.0 and 0.7), and no knock for glitch.
C15_KnockSchedule ==
  /\ sched.kind # "none" => sched.now = sched.clock + 50
  /\ sched.kind = "knock-soft" => Knocks = << <<0, 45>>, <<280, 35>> >>
  /\ sched.kind = "knock-hard" => Knocks = << <<0, 90>>, <<320, 85>> >>
  /\ sched.kind = "heartbeat" => Knocks = << <<0, 100>>, <<250, 70>> >>
  /\ sched.kind = "glitch" => Knocks = << >>

C15_Witness ==
  /\ script = STORY_SEQUENCE
  /\ sched.kind = "heartbeat"
  /\ sched.clock = 1000
  /\ Len(sched.knocks) = 2

\* C20: once the component is torn down, no utterance is held by the speech
\* service and no audio event has been scheduled after the teardown.
C20_TeardownCancels ==
  /\ ~mounted => utterances = << >>
  /\ sched.live

\* The words of the text of the call: the places where a character that is
\* not whitespace begins a run.
ProbeWords ==
  Cardinality({n \in 1..Len(probe.text) :
                 /\ probe.text[n] \notin {" ", "\t"}
                 /\ (n = 1 \/ probe.text[n - 1] \in {" ", "\t"})})

\* C16: the fallback duration of a text of w whitespace-separated words at
\* rate r is max(2400, max(3, w) * 380) / r ms: 2400 for "hello world" at
\* rate 1, 4800 at rate 0.5, never below 2400 / r, and a text that is empty or
\* all whitespace counts 0 words.
C16_FallbackDuration ==
  (probe.applied /\ probe.fn = "approximateSpeechDuration") =>
    LET r == IF probe.rate = NoVal THEN 100 ELSE probe.rate
        w == ProbeWords
        floor == IF 3 * 380 >= 2400 THEN 3 * 380 ELSE 2400
        expected == IF w * 380 >= floor THEN w * 380 ELSE floor
    IN /\ probe.words = w
       /\ probe.ms[1] * r = expected * 100 * probe.ms[2]
       /\ probe.ms[1] * r >= 2400 * 100 * probe.ms[2]
       /\ (probe.text = HelloWorld /\ r = 100) => probe.ms[1] = 2400 * probe.ms[2]
       /\ (probe.text = HelloWorld /\ r = 50) => probe.ms[1] = 4800 * probe.ms[2]
       /\ (\A n \in 1..Len(probe.text) : probe.text[n] \in {" ", "\t"})
            => probe.words = 0

C16_Witness ==
  /\ probe.applied
  /\ probe.fn = "approximateSpeechDuration"
  /\ probe.text = HelloWorld
  /\ probe.rate = 50
  /\ probe.words = 2
  /\ probe.ms[1] = 4800 * probe.ms[2]

\* C17: a speech step is whispered exactly when its pitch is above 1 and
\* narrated otherwise, an absent pitch included; a whisper's pitch is
\* min(pitch + 0.4, 2.0), so never above 2.0 and 2.0 for pitch 1.8; a
\* narration's pitch is the step's pitch unchanged (1 when the step has none).
C17_ToneAndPitch ==
  (probe.applied /\ probe.fn = "speakLine") =>
    LET p == probe.pitch IN
    /\ probe.tone = (IF p # NoVal /\ p > 100 THEN "whisper" ELSE "narrator")
    /\ probe.tone = "whisper" =>
         /\ probe.outPitch = (IF p + 40 <= 200 THEN p + 40 ELSE 200)
         /\ probe.outPitch <= 200
    /\ p = 180 => probe.outPitch = 200
    /\ probe.tone = "narrator" =>
         probe.outPitch = (IF p = NoVal THEN 100 ELSE p)

C17_Witness ==
  /\ probe.applied
  /\ probe.fn = "speakLine"
  /\ probe.pitch = 180
  /\ probe.tone = "whisper"
  /\ probe.outPitch = 200

\* The choice the priority of C18 makes from the voice list of the call.
ExpectedNarrator ==
  LET vs == probe.voices
      All == 1..Len(vs)
      lang(n) == toLowerCase(vs[n].lang)
      name(n) == toLowerCase(vs[n].name)
      female(n) == includes(name(n), << "f", "e", "m", "a", "l", "e" >>)
      lower(n) == /\ ~female(n)
                  /\ \/ includes(name(n), << "m", "a", "l", "e" >>)
                     \/ includes(name(n), << "d", "e", "e", "p" >>)
      hi == {n \in All : startsWith(lang(n), << "h", "i" >>)}
      enIn == {n \in All : includes(lang(n), << "e", "n", "-", "i", "n" >>)}
      deep == {n \in All : lower(n)}
  IN IF vs = << >> THEN 0
     ELSE IF hi # {} THEN First(hi)
     ELSE IF enIn # {} THEN First(enIn)
     ELSE IF deep # {} THEN First(deep)
     ELSE 1

\* C18: the narrator voice is the first voice whose locale starts with "hi",
\* else the first whose locale contains "en-in", else the first whose name
\* suggests a lower-pitched or male timbre (never one marked female), else the
\* first voice, and null exactly when the list is empty.
C18_NarratorPriority ==
  (probe.applied /\ probe.fn = "pickNarratorVoice") =>
    /\ probe.voice = ExpectedNarrator
    /\ probe.voice = 0 <=> probe.voices = << >>

====
